---------------------------- MODULE Spec2Model ----------------------------
(***************************************************************************)
(* A model of the box geometry, the anchor matcher and the detection       *)
(* evaluator of paz:                                                       *)
(*     src/paz/core/backend/boxes.py      compute_iou, compute_ious,       *)
(*                                        to_point_form, to_center_form,   *)
(*                                        encode, decode, reversed_argmax, *)
(*                                        match                            *)
(*     src/paz/evaluation/detection.py    compute_matches and the metrics  *)
(*                                                                         *)
(* Numbers.  The arrays of the code hold IEEE floats.  A float is modelled *)
(* as a pair <<n, d>>: the exact rational n/d in lowest terms when d > 0,  *)
(* and, when d = 0, the special values NaN = <<0,0>>, +Inf = <<1,0>> and   *)
(* -Inf = <<-1,0>>.  The inputs of the model are small integers and        *)
(* halves, on which the float sums, differences and products of the code   *)
(* are exact; an IEEE quotient is the correctly rounded exact quotient, so *)
(* two quotients compare the way the exact rationals do.  Division by zero *)
(* gives what numpy gives for float arrays: 0/0 = NaN, x/0 = +-Inf.        *)
(* Where the rounding of a float decides the outcome (the sums of the      *)
(* average precisions, the round trip between the two box forms) the       *)
(* functions are modelled a second time on bit-exact float64 values: a     *)
(* sign, an odd mantissa of at most 53 bits and an exponent, rounded to    *)
(* nearest-even after every operation (names ending in _float64).  log and *)
(* exp of the box codec are kept symbolic in the exact model: decode       *)
(* computes exp(log(x) * v / v) as x.                                      *)
(*                                                                         *)
(* boxes.py reaches its array library through `import tensor as pz`; the   *)
(* pz functions are modelled as the numpy functions of the same name       *)
(* (maximum, minimum, max, argmax, flip), and pz.zeros(n, m) as the n x m  *)
(* matrix of zeros.                                                        *)
(***************************************************************************)
EXTENDS Integers, Sequences, FiniteSets, TLC

VARIABLES
    pc,             \* position of the call under study
    args,           \* the actual arguments of a call of a pure function
    ret,            \* what that call returned (or the exception it raised)
    num_positives,  \* compute_matches: class -> number of easy ground truths
    score,          \* compute_matches: class -> list of scores
    match,          \* compute_matches: class -> list of match values
    sample,         \* compute_matches: the sample being scanned, with its detections
    scanned,        \* compute_matches: how many samples of the dataset are done
    result          \* evaluateMAP: the returned {'ap', 'map'} record

vars == <<pc, args, ret, num_positives, score, match, sample, scanned, result>>

None == <<>>

\* the sequence f evaluated once, entry by entry (TLC would otherwise keep the
\* constructor and evaluate it again at every access)
Eager(f) == SubSeq(f, 1, Len(f))

\* Op(v) with v evaluated once: a local variable of the code, assigned once
\* and read many times
With(v, Op(_)) == CHOOSE r \in {Op(x) : x \in {v}} : TRUE

(***************************************************************************)
(* Float arithmetic                                                        *)
(***************************************************************************)
Abs(x) == IF x < 0 THEN -x ELSE x

RECURSIVE GCD(_, _)
GCD(a, b) == IF b = 0 THEN a ELSE GCD(b, a % b)

\* n/d with d > 0 reduced by their common divisor g
Reduced(n, d, g) == <<n \div g, d \div g>>

\* n/d with d # 0, in lowest terms with a positive denominator
Q(n, d) ==
    IF d < 0 THEN Reduced(-n, -d, GCD(Abs(n), -d)) ELSE Reduced(n, d, GCD(Abs(n), d))

\* a float of the model from an integer
F(n) == <<n, 1>>

\* the sequences over S of a length in lo..hi
SeqsOf(S, lo, hi) == UNION {[1..n -> S] : n \in lo..hi}

NaN == <<0, 0>>
Inf == <<1, 0>>
NegInf == <<-1, 0>>
Zero == <<0, 1>>
One == <<1, 1>>

IsNaN(x) == x = NaN
IsFinite(x) == x[2] > 0

\* sums, differences and products of finite floats (whole numbers first: no
\* common divisor to look for)
FAdd(x, y) ==
    IF x[2] = 1 /\ y[2] = 1 THEN <<x[1] + y[1], 1>>
    ELSE Q(x[1] * y[2] + y[1] * x[2], x[2] * y[2])

FSub(x, y) ==
    IF x[2] = 1 /\ y[2] = 1 THEN <<x[1] - y[1], 1>>
    ELSE Q(x[1] * y[2] - y[1] * x[2], x[2] * y[2])

FMul(x, y) ==
    IF x[2] = 1 /\ y[2] = 1 THEN <<x[1] * y[1], 1>>
    ELSE Q(x[1] * y[1], x[2] * y[2])

\* x / y on floats: finite operands, numpy's result on a zero divisor
FDiv(x, y) ==
    IF y[1] = 0
    THEN IF x[1] = 0 THEN NaN ELSE IF x[1] > 0 THEN Inf ELSE NegInf
    ELSE Q(x[1] * y[2], x[2] * y[1])

\* x < y on floats: False as soon as one side is NaN
FLt(x, y) ==
    /\ ~IsNaN(x)
    /\ ~IsNaN(y)
    /\ IF IsFinite(x) /\ IsFinite(y) THEN x[1] * y[2] < y[1] * x[2]
       ELSE IF IsFinite(x) THEN y = Inf
       ELSE IF IsFinite(y) THEN x = NegInf
       ELSE x = NegInf /\ y = Inf

FLe(x, y) == ~IsNaN(x) /\ ~IsNaN(y) /\ (x = y \/ FLt(x, y))

\* numpy.maximum / numpy.minimum of two floats (NaN propagates)
maximum(x, y) == IF IsNaN(x) \/ IsNaN(y) THEN NaN ELSE IF FLt(x, y) THEN y ELSE x
minimum(x, y) == IF IsNaN(x) \/ IsNaN(y) THEN NaN ELSE IF FLt(y, x) THEN y ELSE x

(***************************************************************************)
(* Geometry Utils (boxes.py)                                               *)
(***************************************************************************)
\* compute_iou, the intersection of box A with one row B of `boxes`
intersection_area(A, B) ==
    LET inner_x_min == maximum(B[1], A[1])
        inner_y_min == maximum(B[2], A[2])
        inner_x_max == minimum(B[3], A[3])
        inner_y_max == minimum(B[4], A[4])
        inner_w == maximum(FSub(inner_x_max, inner_x_min), Zero)
        inner_h == maximum(FSub(inner_y_max, inner_y_min), Zero)
    IN  FMul(inner_w, inner_h)

\* compute_iou, the union of box A with one row B of `boxes`
union_area(A, B) ==
    LET box_area_B == FMul(FSub(B[3], B[1]), FSub(B[4], B[2]))
        box_area_A == FMul(FSub(A[3], A[1]), FSub(A[4], A[2]))
    IN  FSub(FAdd(box_area_A, box_area_B), intersection_area(A, B))

\* compute_iou, the quotient: the division is not guarded
intersection_over_union(A, B) == FDiv(intersection_area(A, B), union_area(A, B))

\* compute_iou(box, boxes): one value per row of `boxes`
compute_iou(box, boxes) ==
    Eager([i \in 1..Len(boxes) |-> intersection_over_union(box, boxes[i])])

\* compute_ious(boxes_A, boxes_B): row i is compute_iou(boxes_A[i], boxes_B)
compute_ious(boxes_A, boxes_B) ==
    With(boxes_B, LAMBDA B :
        Eager([i \in 1..Len(boxes_A) |-> compute_iou(boxes_A[i], B)]))

Two == <<2, 1>>

\* to_point_form: (center_x, center_y, width, height) -> corners
to_point_form_row(b) ==
    <<FSub(b[1], FDiv(b[3], Two)), FSub(b[2], FDiv(b[4], Two)),
      FAdd(b[1], FDiv(b[3], Two)), FAdd(b[2], FDiv(b[4], Two))>>

to_point_form(boxes) ==
    Eager([i \in 1..Len(boxes) |-> to_point_form_row(boxes[i])])

(***************************************************************************)
(* numpy helpers on vectors and matrices.  A vector is a sequence, a       *)
(* matrix a sequence of rows; indices are the 0-based indices of the code. *)
(***************************************************************************)
\* v[i] with a Python index: a negative i counts from the end
At(v, i) == IF i < 0 THEN v[Len(v) + i + 1] ELSE v[i + 1]

\* v with v[i] = x done, i a Python index
Put(v, i, x) == [v EXCEPT ![IF i < 0 THEN Len(v) + i + 1 ELSE i + 1] = x]

\* the first index (0-based) of a maximum of the vector v, a NaN counting as
\* the maximum
first_top(v) ==
    LET nans == {i \in 1..Len(v) : IsNaN(v[i])}
        tops == {i \in 1..Len(v) : \A j \in 1..Len(v) : ~FLt(v[i], v[j])}
        pick(S) == CHOOSE i \in S : \A j \in S : i <= j
    IN  (IF nans # {} THEN pick(nans) ELSE pick(tops)) - 1

\* numpy argmax of a non-empty vector
argmax(v) == With(v, first_top)

\* numpy max of a non-empty vector: NaN as soon as one entry is NaN
amax(v) == With(v, LAMBDA w : w[first_top(w) + 1])

\* the shape of a matrix with at least one row
shape(array) == <<Len(array), Len(array[1])>>

\* the vector along `axis` at position k (1-based) of the other axis
lane(array, axis, k) ==
    IF axis = 0 THEN Eager([g \in 1..Len(array) |-> array[g][k]]) ELSE array[k]

\* numpy flip(array, axis)
flip(array, axis) ==
    IF axis = 0
    THEN Eager([g \in 1..Len(array) |-> array[Len(array) + 1 - g]])
    ELSE Eager([g \in 1..Len(array) |->
             Eager([a \in 1..Len(array[g]) |-> array[g][Len(array[g]) + 1 - a]])])

\* argmax(array, axis) and max(array, axis) of a matrix
argmax_axis(array, axis) ==
    With(array, LAMBDA arr :
        Eager([k \in 1..shape(arr)[2 - axis] |-> argmax(lane(arr, axis, k))]))

max_axis(array, axis) ==
    With(array, LAMBDA arr :
        Eager([k \in 1..shape(arr)[2 - axis] |-> amax(lane(arr, axis, k))]))

\* a mutant of reversed_argmax: the argmax of numpy, without the flip
reversed_argmax_first(array, axis) == argmax_axis(array, axis)

\* array.shape[axis] - <the argmax of the flipped array> - 1
unflip(size, flipped) == Eager([k \in 1..Len(flipped) |-> size - flipped[k] - 1])

\* reversed_argmax(array, axis)
reversed_argmax(array, axis) ==
    unflip(shape(array)[axis + 1], argmax_axis(flip(array, axis), axis))

(***************************************************************************)
(* Anchor Matcher (boxes.py, match).  A ground-truth row is                *)
(* <<x_min, y_min, x_max, y_max, class>>, a prior box a center-form row.   *)
(***************************************************************************)
Returned(value) == [exception |-> "", value |-> value]
Raised(exception) == [exception |-> exception, value |-> None]

\* a mutant of force_sentinel: the best prior boxes get no sentinel and stay
\* gated by their real IoU
force_sentinel_forgotten(best_box_iou_per_prior_box, best_prior_box_arg_per_box) ==
    best_box_iou_per_prior_box

\* best_box_iou_per_prior_box[best_prior_box_arg_per_box] = 2
force_sentinel(best_box_iou_per_prior_box, best_prior_box_arg_per_box) ==
    Eager([a \in 1..Len(best_box_iou_per_prior_box) |->
        IF \E g \in 1..Len(best_prior_box_arg_per_box) :
               best_prior_box_arg_per_box[g] = a - 1
        THEN Two
        ELSE best_box_iou_per_prior_box[a]])

\* the rest of the loop `for box_arg in range(len(best_prior_box_arg_per_box))`
\* from box_arg on, on the array best_box_arg_per_prior_box
RECURSIVE overwrite_from(_, _, _)
overwrite_from(box_arg, best_box_arg_per_prior_box, best_prior_box_arg_per_box) ==
    IF box_arg >= Len(best_prior_box_arg_per_box)
    THEN best_box_arg_per_prior_box
    ELSE LET best_prior_box_arg == At(best_prior_box_arg_per_box, box_arg)
         IN  overwrite_from(box_arg + 1,
                            Put(best_box_arg_per_prior_box, best_prior_box_arg, box_arg),
                            best_prior_box_arg_per_box)

\* a mutant of overwrite_best_prior_boxes: the first ground truth of a shared
\* best prior box keeps it
overwrite_first_wins(best_box_arg_per_prior_box, best_prior_box_arg_per_box) ==
    Eager([a \in 1..Len(best_box_arg_per_prior_box) |->
        LET mine == {g \in 1..Len(best_prior_box_arg_per_box) :
                        best_prior_box_arg_per_box[g] = a - 1}
        IN  IF mine = {} THEN best_box_arg_per_prior_box[a]
            ELSE (CHOOSE g \in mine : \A h \in mine : g <= h) - 1])

\* a mutant of overwrite_best_prior_boxes: the loop is left out
overwrite_skipped(best_box_arg_per_prior_box, best_prior_box_arg_per_box) ==
    best_box_arg_per_prior_box

\* overwriting best_box_arg_per_prior_box if they are the best prior box
overwrite_best_prior_boxes(best_box_arg_per_prior_box, best_prior_box_arg_per_box) ==
    overwrite_from(0, best_box_arg_per_prior_box, best_prior_box_arg_per_box)

\* matches[best_box_iou_per_prior_box < iou_threshold, 4] = 0
set_background(matches, best_box_iou_per_prior_box, iou_threshold) ==
    Eager([a \in 1..Len(matches) |->
        IF FLt(best_box_iou_per_prior_box[a], iou_threshold)
        THEN [matches[a] EXCEPT ![5] = Zero]
        ELSE matches[a]])

\* matches = boxes[best_box_arg_per_prior_box]
take_boxes(boxes, best_box_arg_per_prior_box) ==
    Eager([a \in 1..Len(best_box_arg_per_prior_box) |->
        At(boxes, best_box_arg_per_prior_box[a])])

\* match from the forcing of the best prior boxes on, the three arrays of
\* best values and arguments being computed
match_forced(boxes, best_box_iou_per_prior_box, best_box_arg_per_prior_box, best_prior_box_arg_per_box, iou_threshold) ==
    set_background(
        take_boxes(boxes,
                   overwrite_best_prior_boxes(best_box_arg_per_prior_box,
                                              best_prior_box_arg_per_box)),
        force_sentinel(best_box_iou_per_prior_box, best_prior_box_arg_per_box),
        iou_threshold)

\* match once the IoU matrix is computed
match_ious_computed(boxes, ious, iou_threshold) ==
    match_forced(boxes, max_axis(ious, 0), reversed_argmax(ious, 0),
                 reversed_argmax(ious, 1), iou_threshold)

\* match(boxes, prior_boxes, iou_threshold).  With no ground-truth box the
\* IoU matrix has shape (0, P) and max over axis 0 raises ValueError.
boxes_match(boxes, prior_boxes, iou_threshold) ==
    IF Len(boxes) = 0
    THEN Raised("ValueError")
    ELSE Returned(With(compute_ious(boxes, to_point_form(prior_boxes)),
                       LAMBDA ious : match_ious_computed(boxes, ious, iou_threshold)))

(***************************************************************************)
(* Detection Evaluator (detection.py), compute_matches.  A detection is a  *)
(* record [box, class_arg, score] (what get_predictions reads from a       *)
(* Box2D), a sample a record [boxes, difficulties, results]: the rows      *)
(* <<x_min, y_min, x_max, y_max, class>> of sample['boxes'], the flags of  *)
(* sample['difficulties'] (None when the key is absent) and what           *)
(* detector(image) returns for the sample's image.  The three dictionaries *)
(* of compute_matches are functions on the label ids 1..num_classes.       *)
(***************************************************************************)
\* the values of class_to_arg
Classes == {1, 2}

num_classes == Cardinality(Classes)

\* get_predictions: the arrays boxes, class_args, scores
get_predictions(results) ==
    [boxes |-> Eager([i \in 1..Len(results) |-> results[i].box]),
     class_args |-> Eager([i \in 1..Len(results) |-> results[i].class_arg]),
     scores |-> Eager([i \in 1..Len(results) |-> results[i].score])]

\* array[mask] for a boolean mask of the length of the array
RECURSIVE masked(_, _)
masked(array, mask) ==
    IF Len(array) = 0 THEN <<>>
    ELSE (IF Head(mask) THEN <<Head(array)>> ELSE <<>>)
             \o masked(Tail(array), Tail(mask))

\* array[args] for a list of 0-based indices
take(array, indices) == Eager([k \in 1..Len(indices) |-> At(array, indices[k])])

\* v.argsort(): the 0-based indices that sort v in ascending order, equal
\* values in the order they have in v (numpy sorts short arrays by insertion)
argsort(v) ==
    LET before(j, i) == FLt(v[j], v[i]) \/ (v[j] = v[i] /\ j < i)
        rank(i) == Cardinality({j \in 1..Len(v) : before(j, i)})
    IN  Eager([p \in 1..Len(v) |-> (CHOOSE i \in 1..Len(v) : rank(i) = p - 1) - 1])

\* v[::-1]
reversed(v) == Eager([i \in 1..Len(v) |-> v[Len(v) + 1 - i]])

\* class_arg == class_args, elementwise
equal_mask(class_arg, class_args) ==
    Eager([i \in 1..Len(class_args) |-> class_args[i] = class_arg])

\* the sorting half of predictions_mask_by_class
sort_by_score(class_boxes, class_scores) ==
    With(reversed(argsort(class_scores)), LAMBDA sorted_args :
        <<take(class_boxes, sorted_args), take(class_scores, sorted_args)>>)

\* predictions_mask_by_class(class_arg, class_args, boxes, scores): numpy raises
\* IndexError when the boolean mask has not the length of the array it indexes
predictions_mask_by_class(class_arg, class_args, boxes, scores) ==
    IF Len(class_args) # Len(boxes)
    THEN Raised("IndexError")
    ELSE With(equal_mask(class_arg, class_args), LAMBDA class_mask :
             Returned(sort_by_score(masked(boxes, class_mask),
                                    masked(scores, class_mask))))

\* ground_truth_mask_by_class(class_arg, class_args, boxes, difficulties); the
\* class column of the ground truth holds floats
ground_truth_mask_by_class(class_arg, class_args, boxes, difficulties) ==
    With(equal_mask(F(class_arg), class_args), LAMBDA class_mask :
        <<masked(boxes, class_mask), masked(difficulties, class_mask)>>)

\* a mutant of get_match_value: a claimed box is looked at before its flag
get_match_value_claimed_first(selected, ground_truth_arg, class_difficulties) ==
    IF ground_truth_arg >= 0
    THEN IF At(selected, ground_truth_arg) THEN <<TRUE, 0>>
         ELSE IF At(class_difficulties, ground_truth_arg) THEN <<TRUE, -1>>
         ELSE <<TRUE, 1>>
    ELSE <<FALSE, 0>>

\* get_match_value(selected, ground_truth_arg, class_difficulties):
\* <<is_selected, match_value>>
get_match_value(selected, ground_truth_arg, class_difficulties) ==
    IF ground_truth_arg >= 0
    THEN IF At(class_difficulties, ground_truth_arg) THEN <<TRUE, -1>>
         ELSE IF ~At(selected, ground_truth_arg) THEN <<TRUE, 1>>
         ELSE <<TRUE, 0>>
    ELSE <<FALSE, 0>>

\* the loop `for ground_truth_arg in ground_truth_args` from its k-th turn on;
\* selected[ground_truth_arg] = is_selected is done with the index as it is,
\* and -1 is the last entry of `selected`
RECURSIVE match_loop(_, _, _, _, _)
match_loop(k, ground_truth_args, selected, class_difficulties, match_values) ==
    IF k > Len(ground_truth_args)
    THEN match_values
    ELSE With(get_match_value(selected, ground_truth_args[k], class_difficulties),
              LAMBDA got :
                  match_loop(k + 1, ground_truth_args,
                             Put(selected, ground_truth_args[k], got[1]),
                             class_difficulties, Append(match_values, got[2])))

\* boxes[:, 2:] = boxes[:, 2:] + 1 on a copy
plus_one(boxes) ==
    Eager([i \in 1..Len(boxes) |->
        <<boxes[i][1], boxes[i][2], FAdd(boxes[i][3], One), FAdd(boxes[i][4], One)>>])

\* ious.argmax(axis=1), then -1 where ious.max(axis=1) < iou_thresh
best_ground_truth_args(ious, iou_thresh) ==
    Eager([k \in 1..Len(ious) |->
        IF FLt(amax(ious[k]), iou_thresh) THEN -1 ELSE argmax(ious[k])])

\* the match values of the predictions of one class against its ground truth
class_match_values(class_predicted_boxes, class_ground_truth_boxes, class_difficulties, iou_thresh) ==
    match_loop(1,
               best_ground_truth_args(
                   compute_ious(plus_one(class_predicted_boxes),
                                plus_one(class_ground_truth_boxes)),
                   iou_thresh),
               [i \in 1..Len(class_ground_truth_boxes) |-> FALSE],
               class_difficulties, <<>>)

\* the number of easy boxes
num_easy(class_difficulties) ==
    Cardinality({i \in 1..Len(class_difficulties) : ~class_difficulties[i]})

\* the body of `for class_arg in class_args` after the two maskings, on the
\* record acc of the three dictionaries
match_class(acc, class_arg, class_predicted_boxes, class_predicted_scores, class_ground_truth_boxes, class_difficulties, iou_thresh) ==
    With([acc EXCEPT !.num_positives[class_arg] = @ + num_easy(class_difficulties),
                     !.score[class_arg] = @ \o class_predicted_scores],
         LAMBDA counted :
             IF Len(class_predicted_boxes) = 0 THEN counted
             ELSE IF Len(class_ground_truth_boxes) = 0
             THEN [counted EXCEPT !.match[class_arg] =
                      @ \o [i \in 1..Len(class_predicted_boxes) |-> 0]]
             ELSE [counted EXCEPT !.match[class_arg] =
                      @ \o class_match_values(class_predicted_boxes,
                                              class_ground_truth_boxes,
                                              class_difficulties, iou_thresh)])

\* np.unique(np.concatenate((predicted_class_args, ground_truth_class_args)))
\* .astype(int): the classes of the sample in ascending order
RECURSIVE ascending(_)
ascending(S) ==
    IF S = {} THEN <<>>
    ELSE LET least == CHOOSE x \in S : \A y \in S : x <= y
         IN  <<least>> \o ascending(S \ {least})

unique_class_args(predicted_class_args, ground_truth_class_args) ==
    ascending({predicted_class_args[i] : i \in 1..Len(predicted_class_args)}
              \cup {ground_truth_class_args[i][1] :
                        i \in 1..Len(ground_truth_class_args)})

\* one turn of `for class_arg in class_args`: the predictions are masked with
\* class_args, the array of the classes of the sample (line 145)
scan_class(acc, class_arg, class_args, predictions, ground_truth, iou_thresh) ==
    With(predictions_mask_by_class(class_arg, class_args,
                                   predictions.boxes, predictions.scores),
         LAMBDA masked_predictions :
             IF masked_predictions.exception # ""
             THEN masked_predictions
             ELSE With(ground_truth_mask_by_class(
                           class_arg, ground_truth.class_args,
                           ground_truth.boxes, ground_truth.difficulties),
                       LAMBDA masked_truth :
                           Returned(match_class(acc, class_arg,
                                                masked_predictions.value[1],
                                                masked_predictions.value[2],
                                                masked_truth[1], masked_truth[2],
                                                iou_thresh))))

\* the loop `for class_arg in class_args` from its k-th turn on
RECURSIVE scan_classes(_, _, _, _, _, _)
scan_classes(k, acc, class_args, predictions, ground_truth, iou_thresh) ==
    IF k > Len(class_args)
    THEN Returned(acc)
    ELSE With(scan_class(acc, class_args[k], class_args, predictions,
                         ground_truth, iou_thresh),
              LAMBDA turn :
                  IF turn.exception # ""
                  THEN turn
                  ELSE scan_classes(k + 1, turn.value, class_args,
                                    predictions, ground_truth, iou_thresh))

\* obtaining ground truths: the boxes, the class column and the difficulties,
\* set to easy if they are None
ground_truth_of(a_sample) ==
    [boxes |-> Eager([i \in 1..Len(a_sample.boxes) |-> SubSeq(a_sample.boxes[i], 1, 4)]),
     class_args |-> Eager([i \in 1..Len(a_sample.boxes) |-> a_sample.boxes[i][5]]),
     difficulties |-> IF a_sample.difficulties = None
                      THEN [i \in 1..Len(a_sample.boxes) |-> FALSE]
                      ELSE a_sample.difficulties]

\* the body of `for sample in dataset` on the record acc of the dictionaries
scan_sample(acc, a_sample, iou_thresh) ==
    With(get_predictions(a_sample.results), LAMBDA predictions :
        With(ground_truth_of(a_sample), LAMBDA ground_truth :
            scan_classes(1, acc,
                         unique_class_args(predictions.class_args,
                                           ground_truth.class_args),
                         predictions, ground_truth, iou_thresh)))

\* the loop `for sample in dataset` from the k-th sample on; compute_matches
\* returns the dictionaries unless a sample raises
RECURSIVE scan_dataset(_, _, _, _)
scan_dataset(k, acc, dataset, iou_thresh) ==
    IF k > Len(dataset)
    THEN Returned(acc)
    ELSE With(scan_sample(acc, dataset[k], iou_thresh), LAMBDA turn :
             IF turn.exception # ""
             THEN turn
             ELSE scan_dataset(k + 1, turn.value, dataset, iou_thresh))

\* the three dictionaries as compute_matches creates them
empty_dictionaries ==
    [num_positives |-> [label_id \in 1..num_classes |-> 0],
     score |-> [label_id \in 1..num_classes |-> <<>>],
     match |-> [label_id \in 1..num_classes |-> <<>>]]

\* compute_matches(dataset, detector, class_to_arg, iou_thresh)
compute_matches(dataset, iou_thresh) ==
    scan_dataset(1, empty_dictionaries, dataset, iou_thresh)

(***************************************************************************)
(* Detection Evaluator, the metrics.  precision, recall and the average    *)
(* precisions are lists indexed by class_arg in 0..num_classes (entry      *)
(* class_arg + 1 of the sequence).  An entry of precision or recall is     *)
(* Python's None or an array: NoArray or Array(v).                         *)
(***************************************************************************)
NoArray == [is_none |-> TRUE, array |-> <<>>]
Array(v) == [is_none |-> FALSE, array |-> v]

RECURSIVE FSum(_)
FSum(v) == IF Len(v) = 0 THEN Zero ELSE FAdd(Head(v), FSum(Tail(v)))

\* np.cumsum(class_positive_matches == value)
cumsum_equal(class_positive_matches, value) ==
    Eager([k \in 1..Len(class_positive_matches) |->
        Cardinality({j \in 1..k : class_positive_matches[j] = value})])

\* true_positives / (false_positives + true_positives)
class_precision(true_positives, false_positives) ==
    Eager([k \in 1..Len(true_positives) |->
        FDiv(F(true_positives[k]), F(false_positives[k] + true_positives[k]))])

\* a mutant of class_recall: a class without positives gets a recall of zeros
class_recall_zeros(true_positives, class_num_positives) ==
    IF class_num_positives > 0
    THEN Array(Eager([k \in 1..Len(true_positives) |->
             FDiv(F(true_positives[k]), F(class_num_positives))]))
    ELSE Array(Eager([k \in 1..Len(true_positives) |-> Zero]))

\* true_positives / num_positives[class_arg] if there are positives
class_recall(true_positives, class_num_positives) ==
    IF class_num_positives > 0
    THEN Array(Eager([k \in 1..Len(true_positives) |->
             FDiv(F(true_positives[k]), F(class_num_positives))]))
    ELSE NoArray

\* a mutant of matches_by_score: the matches are left in the order of collection
matches_by_score_unsorted(class_scores, class_matches) == class_matches

\* the matches of a class in the order of descending score
matches_by_score(class_scores, class_matches) ==
    take(class_matches, reversed(argsort(class_scores)))

\* calculate_relevance_metrics(num_positives, scores, matches)
calculate_relevance_metrics(positives, scores, matches) ==
    With([class_arg \in 1..num_classes |->
             cumsum_equal(matches_by_score(scores[class_arg], matches[class_arg]), 1)],
         LAMBDA true_positives :
             [precision |->
                 <<NoArray>> \o Eager([class_arg \in 1..num_classes |->
                     Array(class_precision(
                         true_positives[class_arg],
                         cumsum_equal(matches_by_score(scores[class_arg],
                                                       matches[class_arg]), 0)))]),
              recall |->
                 <<NoArray>> \o Eager([class_arg \in 1..num_classes |->
                     class_recall(true_positives[class_arg], positives[class_arg])])])

\* np.nan_to_num on a vector of precisions
nan_to_num(v) == Eager([k \in 1..Len(v) |-> IF IsNaN(v[k]) THEN Zero ELSE v[k]])

\* recall >= t for t the i-th entry of np.arange(0., 1.1, 0.1): the floats
\* 3*0.1, 6*0.1 and 7*0.1 are one step above 0.3, 0.6 and 0.7, so a recall
\* of exactly 3/10, 6/10 or 7/10 is below them
reaches(recall_value, i) ==
    IF i \in {3, 6, 7} THEN FLt(Q(i, 10), recall_value) ELSE FLe(Q(i, 10), recall_value)

\* the interpolated precision at the i-th recall threshold
p_interpolation(class_precision_values, class_recall_values, i) ==
    LET at == {k \in 1..Len(class_recall_values) : reaches(class_recall_values[k], i)}
    IN  IF at = {} THEN Zero
        ELSE With(nan_to_num(class_precision_values), LAMBDA p :
                 p[CHOOSE k \in at : \A j \in at : FLe(p[j], p[k])])

\* the 11 point metric of one class
eleven_point(class_precision_values, class_recall_values) ==
    FSum([i \in 1..11 |->
             FDiv(p_interpolation(class_precision_values, class_recall_values, i - 1),
                  F(11))])

\* np.maximum.accumulate(v[::-1])[::-1]
envelope(v) ==
    Eager([k \in 1..Len(v) |->
        v[CHOOSE m \in k..Len(v) : \A j \in k..Len(v) : FLe(v[j], v[m])]])

\* the sum of (\Delta recall) * precision where recall changes
area_under(average_precision, average_recall) ==
    FSum(Eager([i \in 1..(Len(average_recall) - 1) |->
        IF average_recall[i + 1] # average_recall[i]
        THEN FMul(FSub(average_recall[i + 1], average_recall[i]),
                  average_precision[i + 1])
        ELSE Zero]))

\* the every point metric of one class, sentinel values appended
every_point(class_precision_values, class_recall_values) ==
    area_under(envelope(<<Zero>> \o nan_to_num(class_precision_values) \o <<Zero>>),
               <<Zero>> \o class_recall_values \o <<One>>)

\* calculate_average_precisions_eleven_point_interpolation(precision, recall)
calculate_average_precisions_eleven_point_interpolation(precision, recall) ==
    Eager([c \in 1..Len(precision) |->
        IF precision[c].is_none \/ recall[c].is_none THEN NaN
        ELSE eleven_point(precision[c].array, recall[c].array)])

\* calculate_average_precisions_every_point_interpolation(precision, recall)
calculate_average_precisions_every_point_interpolation(precision, recall) ==
    Eager([c \in 1..Len(precision) |->
        IF precision[c].is_none \/ recall[c].is_none THEN NaN
        ELSE every_point(precision[c].array, recall[c].array)])

\* a mutant of nanmean: the mean of numpy, which a NaN entry makes NaN
nanmean_plain(v) ==
    IF \E k \in 1..Len(v) : IsNaN(v[k]) THEN NaN ELSE FDiv(FSum(v), F(Len(v)))

\* np.nanmean: the mean of the entries that are not NaN, NaN if there is none
nanmean(v) ==
    With(SelectSeq(v, LAMBDA x : ~IsNaN(x)), LAMBDA defined :
        FDiv(FSum(defined), F(Len(defined))))

\* evaluateMAP after compute_matches returned the three dictionaries
evaluateMAP(positives, scores, matches, use_07_metric) ==
    With(calculate_relevance_metrics(positives, scores, matches), LAMBDA metrics :
        With(IF use_07_metric
             THEN calculate_average_precisions_eleven_point_interpolation(
                      metrics.precision, metrics.recall)
             ELSE calculate_average_precisions_every_point_interpolation(
                      metrics.precision, metrics.recall),
             LAMBDA average_precisions :
                 [ap |-> average_precisions, map |-> nanmean(average_precisions)]))

(***************************************************************************)
(* State shared by the specifications: each one drives its own variables   *)
(* and leaves the others at None.                                          *)
(***************************************************************************)
NoCall == args = None /\ ret = None
NoEvaluation ==
    /\ num_positives = None
    /\ score = None
    /\ match = None
    /\ sample = None
    /\ scanned = None
    /\ result = None

evaluation == <<num_positives, score, match, sample, scanned, result>>

(***************************************************************************)
(* reversed_argmax on matrices of up to MaxDim x MaxDim entries            *)
(***************************************************************************)
MaxDim == 2

ArrayValues == {Zero, One, NaN}

Arrays == UNION {[1..r -> [1..c -> ArrayValues]] : r \in 1..MaxDim, c \in 1..MaxDim}

InitArgmax ==
    /\ pc = "call"
    /\ args \in [array : Arrays, axis : {0, 1}]
    /\ ret = None
    /\ NoEvaluation

call_reversed_argmax ==
    /\ pc = "call"
    /\ ret' = reversed_argmax(args.array, args.axis)
    /\ pc' = "return"
    /\ UNCHANGED <<args, evaluation>>

NextArgmax == call_reversed_argmax

SpecArgmax == InitArgmax /\ [][NextArgmax]_vars

(***************************************************************************)
(* compute_iou on point-form boxes, degenerate ones included               *)
(***************************************************************************)
MaxBoxes == 2

\* x_min and x_max in {0,1,2} in either order, height 1 or 0
IouBoxes ==
    {<<F(x1), Zero, F(x2), F(y2)>> : x1 \in 0..2, x2 \in 0..2, y2 \in 0..1}

InitIou ==
    /\ pc = "call"
    /\ args \in [box : IouBoxes, boxes : SeqsOf(IouBoxes, 1, MaxBoxes)]
    /\ ret = None
    /\ NoEvaluation

call_compute_iou ==
    /\ pc = "call"
    /\ ret' = compute_iou(args.box, args.boxes)
    /\ pc' = "return"
    /\ UNCHANGED <<args, evaluation>>

NextIou == call_compute_iou

SpecIou == InitIou /\ [][NextIou]_vars

(***************************************************************************)
(* match on up to MaxBoxes ground-truth boxes and up to MaxPriors prior    *)
(* boxes.  The boxes lie on one row of height 1; a prior box of width 0    *)
(* and a ground-truth box of width 0 give a NaN entry of the IoU matrix.   *)
(***************************************************************************)
MaxPriors == 2

Half == <<1, 2>>

GroundTruthBoxes ==
    {<<F(x[1]), Zero, F(x[2]), One, F(c)>> :
        x \in {<<0, 1>>, <<0, 2>>, <<1, 1>>}, c \in Classes}

\* center form: the corners are [0,1], [1,2] and the empty [1,1]
PriorBoxes ==
    {<<Half, Half, One, One>>, <<<<3, 2>>, Half, One, One>>,
     <<One, Half, Zero, One>>}

Thresholds == {Zero, Half, One}

InitMatch ==
    /\ pc = "call"
    /\ args \in [boxes : SeqsOf(GroundTruthBoxes, 0, MaxBoxes),
                  prior_boxes : SeqsOf(PriorBoxes, 1, MaxPriors),
                  iou_threshold : Thresholds]
    /\ ret = None
    /\ NoEvaluation

call_match ==
    /\ pc = "call"
    /\ ret' = boxes_match(args.boxes, args.prior_boxes, args.iou_threshold)
    /\ pc' = "return"
    /\ UNCHANGED <<args, evaluation>>

NextMatch == call_match

SpecMatch == InitMatch /\ [][NextMatch]_vars

\* what the claims about match speak of, for a call that returned
match_ious == compute_ious(args.boxes, to_point_form(args.prior_boxes))
\* best[g] + 1 is g's best anchor: reversed_argmax over g's row of the matrix
match_best == reversed_argmax(match_ious, 1)
GroundTruths == 1..Len(args.boxes)
Anchors == 1..Len(args.prior_boxes)
MatchReturned == pc = "return" /\ ret.exception = ""

(***************************************************************************)
(* One turn of `for class_arg in class_args` of compute_matches after the  *)
(* two maskings (detection.py:151-184): up to MaxPredictions predictions   *)
(* of a class, sorted by score, against up to MaxTruths ground-truth boxes *)
(* of the class.  With the + 1 of the evaluator the boxes are K = [0,1],   *)
(* L = [0,2] and M = [2,3] on one row: IoU(K, L) = 1/2, IoU(., M) = 0.     *)
(***************************************************************************)
MaxPredictions == 3

MaxTruths == 2

BoxK == <<Zero, Zero, Zero, Zero>>
BoxL == <<Zero, Zero, One, Zero>>
BoxM == <<Two, Zero, Two, Zero>>

PredictedBoxes == {BoxK, BoxL, BoxM}

TruthBoxes == {BoxK, BoxL}

\* scores in descending order, as predictions_mask_by_class leaves them
descending_scores(n) == [k \in 1..n |-> Q(1, k)]

ClassInputs ==
    UNION {[class_arg : Classes,
            class_predicted_boxes : [1..p -> PredictedBoxes],
            class_predicted_scores : {descending_scores(p)},
            class_ground_truth_boxes : [1..g -> TruthBoxes],
            class_difficulties : [1..g -> BOOLEAN],
            iou_thresh : {Half}] : p \in 0..MaxPredictions, g \in 0..MaxTruths}

InitClass ==
    /\ pc = "class"
    /\ args \in ClassInputs
    /\ ret = None
    /\ num_positives = empty_dictionaries.num_positives
    /\ score = empty_dictionaries.score
    /\ match = empty_dictionaries.match
    /\ sample = None
    /\ scanned = None
    /\ result = None

class_turn ==
    /\ pc = "class"
    /\ \E after \in {match_class([num_positives |-> num_positives, score |-> score, match |-> match],
                                 args.class_arg, args.class_predicted_boxes,
                                 args.class_predicted_scores,
                                 args.class_ground_truth_boxes,
                                 args.class_difficulties, args.iou_thresh)} :
          /\ num_positives' = after.num_positives
          /\ score' = after.score
          /\ match' = after.match
    /\ pc' = "next"
    /\ UNCHANGED <<args, ret, sample, scanned, result>>

NextClass == class_turn

SpecClass == InitClass /\ [][NextClass]_vars

\* what the claims about the turn speak of, once it is over
ClassTurned == pc = "next"
ClassPredictions == 1..Len(args.class_predicted_boxes)
ClassTruths == 1..Len(args.class_ground_truth_boxes)
\* the IoU of prediction k with ground-truth box g, both widened by one
class_iou(k, g) ==
    intersection_over_union(plus_one(<<args.class_predicted_boxes[k]>>)[1],
                            plus_one(<<args.class_ground_truth_boxes[g]>>)[1])
\* g is the ground-truth box prediction k matches: the first box of the
\* highest IoU, if that IoU reaches the threshold
class_best(k, g) ==
    /\ FLe(args.iou_thresh, class_iou(k, g))
    /\ \A h \in ClassTruths : FLe(class_iou(k, h), class_iou(k, g))
    /\ \A h \in 1..(g - 1) : FLt(class_iou(k, h), class_iou(k, g))

(***************************************************************************)
(* evaluateMAP on a dataset of up to MaxSamples samples: compute_matches   *)
(* scans the samples one by one, then the metrics are computed.  A sample  *)
(* has at most one ground-truth row per class, all of box K, and the      *)
(* detector returns up to num_classes detections for it, of box K with     *)
(* score 9/10 or of box M with score 1/2; the default iou_thresh of 0.5 is *)
(* used.                                                                   *)
(***************************************************************************)
MaxSamples == 2

TruthRows == {BoxK \o <<F(c)>> : c \in Classes}

Detections ==
    {[box |-> BoxK, class_arg |-> c, score |-> Q(9, 10)] : c \in Classes}
        \cup {[box |-> BoxM, class_arg |-> c, score |-> Half] : c \in Classes}

\* sample['difficulties'] is absent (None) or holds one flag per row
Samples ==
    UNION {[boxes : {rows \in [1..g -> TruthRows] :
                        \A i, j \in 1..g : rows[i] = rows[j] => i = j},
            difficulties : {None} \cup [1..g -> BOOLEAN],
            results : SeqsOf(Detections, 0, num_classes)] : g \in 0..num_classes}

InitEval ==
    /\ pc = "scan"
    /\ args = [iou_thresh |-> Half]
    /\ ret = None
    /\ num_positives = empty_dictionaries.num_positives
    /\ score = empty_dictionaries.score
    /\ match = empty_dictionaries.match
    /\ sample = None
    /\ scanned = 0
    /\ result = None

\* `for sample in dataset`: the next sample and what the detector returns
load_sample ==
    /\ pc = "scan"
    /\ scanned < MaxSamples
    /\ sample' \in Samples
    /\ pc' = "loaded"
    /\ UNCHANGED <<args, ret, num_positives, score, match, scanned, result>>

\* the body of the loop; an exception ends compute_matches and evaluateMAP
match_sample ==
    /\ pc = "loaded"
    /\ \E after \in {scan_sample([num_positives |-> num_positives, score |-> score, match |-> match],
                                 sample, args.iou_thresh)} :
          IF after.exception # ""
          THEN /\ ret' = after
               /\ pc' = "raised"
               /\ UNCHANGED <<num_positives, score, match, sample, scanned>>
          ELSE /\ num_positives' = after.value.num_positives
               /\ score' = after.value.score
               /\ match' = after.value.match
               /\ sample' = None
               /\ scanned' = scanned + 1
               /\ pc' = "scan"
               /\ UNCHANGED ret
    /\ UNCHANGED <<args, result>>

\* the dataset is exhausted: the metrics of evaluateMAP; result holds the
\* argument use_07_metric of the call and the dictionary it returned
evaluate ==
    /\ pc = "scan"
    /\ \E use_07_metric \in BOOLEAN :
          result' = [use_07_metric |-> use_07_metric,
                     returned |-> evaluateMAP(num_positives, score, match,
                                              use_07_metric)]
    /\ pc' = "done"
    /\ UNCHANGED <<args, ret, num_positives, score, match, sample, scanned>>

NextEval == load_sample \/ match_sample \/ evaluate

SpecEval == InitEval /\ [][NextEval]_vars

\* what the claims about the evaluator speak of
\* the classes of the loaded sample: predicted and ground-truth ones
SampleClasses ==
    {sample.results[i].class_arg : i \in 1..Len(sample.results)}
        \cup {sample.boxes[i][5][1] : i \in 1..Len(sample.boxes)}
\* the scores of the loaded sample's detections of class c, in detector order
SampleScores(c) ==
    With(SelectSeq(sample.results, LAMBDA detection : detection.class_arg = c),
         LAMBDA own : [i \in 1..Len(own) |-> own[i].score])
\* how often x occurs in the sequence v
Occurrences(v, x) == Cardinality({i \in 1..Len(v) : v[i] = x})
Evaluated == pc = "done"
average_precisions == result.returned.ap

(***************************************************************************)
(* compute_matches and calculate_relevance_metrics on a dataset scanned in *)
(* any order.  args.dataset is the dataset as given; `collect` scans a     *)
(* permutation of it.  Every sample has one detection and no ground truth  *)
(* of another class, so that none raises.                                  *)
(***************************************************************************)
OrderSamples ==
    {s \in Samples :
        /\ Len(s.results) = 1
        /\ \A i \in 1..Len(s.boxes) : s.boxes[i][5] = F(s.results[1].class_arg)}

orderings(n) == {p \in [1..n -> 1..n] : \A i, j \in 1..n : p[i] = p[j] => i = j}

InitOrder ==
    /\ pc = "collect"
    /\ args \in [dataset : SeqsOf(OrderSamples, MaxSamples, MaxSamples),
                  iou_thresh : {Half}]
    /\ ret = None
    /\ num_positives = empty_dictionaries.num_positives
    /\ score = empty_dictionaries.score
    /\ match = empty_dictionaries.match
    /\ sample = None
    /\ scanned = 0
    /\ result = None

\* compute_matches on a permutation of the dataset
collect ==
    /\ pc = "collect"
    /\ \E order \in orderings(Len(args.dataset)) :
          \E after \in {compute_matches([k \in 1..Len(args.dataset) |->
                                            args.dataset[order[k]]],
                                        args.iou_thresh)} :
              /\ after.exception = ""
              /\ num_positives' = after.value.num_positives
              /\ score' = after.value.score
              /\ match' = after.value.match
    /\ scanned' = Len(args.dataset)
    /\ pc' = "collected"
    /\ UNCHANGED <<args, ret, sample, result>>

\* precision, recall = calculate_relevance_metrics(positives, score, match)
relevance ==
    /\ pc = "collected"
    /\ ret' = calculate_relevance_metrics(num_positives, score, match)
    /\ pc' = "measured"
    /\ UNCHANGED <<args, evaluation>>

NextOrder == collect \/ relevance

SpecOrder == InitOrder /\ [][NextOrder]_vars

\* what the claims about the order of collection speak of
Measured == pc = "measured"
\* the dictionaries of the sequential scan of the dataset as given
sequential == compute_matches(args.dataset, args.iou_thresh).value
sequential_metrics ==
    calculate_relevance_metrics(sequential.num_positives, sequential.score,
                                sequential.match)
\* predictions of a class with equal scores have equal match values
TiesAgree ==
    \A c \in Classes : \A i, j \in 1..Len(score[c]) :
        score[c][i] = score[c][j] => match[c][i] = match[c][j]

(***************************************************************************)
(* float64 with its rounding.  Where a result depends on the rounding of   *)
(* the float operations, the operations are modelled bit for bit: a finite *)
(* float64 is sign * mant * 2^exp with mant an odd natural number of at    *)
(* most 53 bits (0 for zero), and every operation rounds the exact result  *)
(* to the nearest such number, ties to the even one.  Overflow, underflow  *)
(* and the sign of zero do not occur in the metrics and are left out.  A   *)
(* natural number is the sequence of its digits in base 2^15, the lowest   *)
(* first, without leading zeros, so that no intermediate value leaves the  *)
(* 32-bit integers of the model checker.                                   *)
(***************************************************************************)
Base == 2^15

Low(a) == IF a = <<>> THEN 0 ELSE Head(a)
Rest(a) == IF a = <<>> THEN <<>> ELSE Tail(a)

RECURSIVE Trim(_)
Trim(a) == IF a # <<>> /\ a[Len(a)] = 0 THEN Trim(SubSeq(a, 1, Len(a) - 1)) ELSE a

RECURSIVE BigOfInt(_)
BigOfInt(n) == IF n = 0 THEN <<>> ELSE <<n % Base>> \o BigOfInt(n \div Base)

RECURSIVE BigAddCarry(_, _, _)
BigAddCarry(a, b, carry) ==
    IF a = <<>> /\ b = <<>>
    THEN BigOfInt(carry)
    ELSE <<(Low(a) + Low(b) + carry) % Base>>
             \o BigAddCarry(Rest(a), Rest(b), (Low(a) + Low(b) + carry) \div Base)

BigAdd(a, b) == BigAddCarry(a, b, 0)

\* a - b - borrow for a >= b + borrow, leading zeros kept
RECURSIVE BigSubBorrow(_, _, _)
BigSubBorrow(a, b, borrow) ==
    IF a = <<>>
    THEN <<>>
    ELSE <<(Low(a) - Low(b) - borrow + Base) % Base>>
             \o BigSubBorrow(Rest(a), Rest(b),
                             IF Low(a) - Low(b) - borrow < 0 THEN 1 ELSE 0)

BigSub(a, b) == Trim(BigSubBorrow(a, b, 0))

\* -1, 0 or 1 as a < b, a = b or a > b
RECURSIVE BigCompareFrom(_, _, _)
BigCompareFrom(a, b, k) ==
    IF k = 0 THEN 0
    ELSE IF a[k] < b[k] THEN -1
    ELSE IF a[k] > b[k] THEN 1
    ELSE BigCompareFrom(a, b, k - 1)

BigCompare(a, b) ==
    IF Len(a) < Len(b) THEN -1
    ELSE IF Len(a) > Len(b) THEN 1
    ELSE BigCompareFrom(a, b, Len(a))

\* a * d + carry for 0 <= d <= Base
RECURSIVE BigTimesSmall(_, _, _)
BigTimesSmall(a, d, carry) ==
    IF a = <<>>
    THEN BigOfInt(carry)
    ELSE <<(Head(a) * d + carry) % Base>>
             \o BigTimesSmall(Tail(a), d, (Head(a) * d + carry) \div Base)

\* a * Base^k
BigShiftDigits(a, k) == IF a = <<>> THEN <<>> ELSE [i \in 1..k |-> 0] \o a

RECURSIVE BigTimes(_, _)
BigTimes(a, b) ==
    IF b = <<>>
    THEN <<>>
    ELSE BigAdd(Trim(BigTimesSmall(a, Head(b), 0)),
                BigShiftDigits(BigTimes(a, Tail(b)), 1))

\* <<a \div d, a % d>> for 1 <= d <= Base, from digit k (the highest one not
\* yet divided) down
RECURSIVE BigDivideFrom(_, _, _, _)
BigDivideFrom(a, d, k, remainder) ==
    IF k = 0
    THEN <<<<>>, remainder>>
    ELSE With(BigDivideFrom(a, d, k - 1, (remainder * Base + a[k]) % d),
              LAMBDA below :
                  <<Append(below[1], (remainder * Base + a[k]) \div d), below[2]>>)

BigDivideSmall(a, d) ==
    With(BigDivideFrom(a, d, Len(a), 0), LAMBDA divided :
        <<Trim(divided[1]), divided[2]>>)

\* a * 2^k
BigShiftLeft(a, k) ==
    BigShiftDigits(Trim(BigTimesSmall(a, 2^(k % 15), 0)), k \div 15)

\* a \div 2^k
BigShiftRight(a, k) ==
    IF k \div 15 >= Len(a) THEN <<>>
    ELSE BigDivideSmall(SubSeq(a, k \div 15 + 1, Len(a)), 2^(k % 15))[1]

\* the number of bits of n, for 0 <= n < Base
RECURSIVE BitsOfDigit(_)
BitsOfDigit(n) == IF n = 0 THEN 0 ELSE 1 + BitsOfDigit(n \div 2)

BigBits(a) == IF a = <<>> THEN 0 ELSE 15 * (Len(a) - 1) + BitsOfDigit(a[Len(a)])

BigOdd(a) == a # <<>> /\ a[1] % 2 = 1

\* the float64 values
Float64NaN == [nan |-> TRUE, sign |-> 1, mant |-> <<>>, exp |-> 0]
Float64Zero == [nan |-> FALSE, sign |-> 1, mant |-> <<>>, exp |-> 0]

\* sign * a * 2^e for a of at most 53 bits: the trailing zero bits go to exp
RECURSIVE Float64Of(_, _, _)
Float64Of(sign, a, e) ==
    IF a = <<>> THEN Float64Zero
    ELSE IF a[1] = 0 THEN Float64Of(sign, Tail(a), e + 15)
    ELSE IF a[1] % 2 = 0 THEN Float64Of(sign, BigShiftRight(a, 1), e + 1)
    ELSE [nan |-> FALSE, sign |-> sign, mant |-> a, exp |-> e]

\* a rounded to its 53 highest bits, the `drop` lowest bits rounded away
RoundedAway(a, drop) ==
    With(BigShiftRight(a, drop), LAMBDA kept :
        With(BigCompare(BigSub(a, BigShiftLeft(kept, drop)),
                        BigShiftLeft(<<1>>, drop - 1)),
             LAMBDA to_half :
                 IF to_half > 0 \/ (to_half = 0 /\ BigOdd(kept))
                 THEN BigAdd(kept, <<1>>)
                 ELSE kept))

\* the float64 nearest to sign * a * 2^e, ties to even
Round53(sign, a, e) ==
    IF BigBits(a) <= 53
    THEN Float64Of(sign, a, e)
    ELSE Float64Of(sign, RoundedAway(a, BigBits(a) - 53), e + BigBits(a) - 53)

Float64OfInt(n) == Float64Of(IF n < 0 THEN -1 ELSE 1, BigOfInt(Abs(n)), 0)
Float64One == Float64OfInt(1)

Float64Neg(x) == IF x.nan \/ x.mant = <<>> THEN x ELSE [x EXCEPT !.sign = -x.sign]

\* sign_a * a * 2^e + sign_b * b * 2^e, rounded
Float64Sum(sign_a, a, sign_b, b, e) ==
    IF sign_a = sign_b THEN Round53(sign_a, BigAdd(a, b), e)
    ELSE IF BigCompare(a, b) >= 0 THEN Round53(sign_a, BigSub(a, b), e)
    ELSE Round53(sign_b, BigSub(b, a), e)

Float64Least(i, j) == IF i < j THEN i ELSE j

Float64Add(x, y) ==
    IF x.nan \/ y.nan THEN Float64NaN
    ELSE IF x.mant = <<>> THEN y
    ELSE IF y.mant = <<>> THEN x
    ELSE Float64Sum(x.sign, BigShiftLeft(x.mant, x.exp - Float64Least(x.exp, y.exp)),
                    y.sign, BigShiftLeft(y.mant, y.exp - Float64Least(x.exp, y.exp)),
                    Float64Least(x.exp, y.exp))

Float64Sub(x, y) == Float64Add(x, Float64Neg(y))

Float64Mul(x, y) ==
    IF x.nan \/ y.nan THEN Float64NaN
    ELSE IF x.mant = <<>> \/ y.mant = <<>> THEN Float64Zero
    ELSE Round53(x.sign * y.sign, BigTimes(x.mant, y.mant), x.exp + y.exp)

\* x / d for an integer 1 <= d <= Base: 72 more bits of the quotient than x
\* has, and one bit below them that tells whether the division left a rest
Float64DivSmall(x, d) ==
    IF x.nan \/ x.mant = <<>> THEN x
    ELSE With(BigDivideSmall(BigShiftLeft(x.mant, 72), d), LAMBDA divided :
             Round53(x.sign,
                     BigAddCarry(divided[1], divided[1],
                                 IF divided[2] = 0 THEN 0 ELSE 1),
                     x.exp - 73))

\* n / d for integers 0 <= n <= d <= Base, as numpy divides arrays: 0 / 0 is
\* NaN (a count n is never above the total d, so that d = 0 only with n = 0)
Float64Quotient(n, d) ==
    IF d = 0 THEN Float64NaN ELSE Float64DivSmall(Float64OfInt(n), d)

\* x < y, x <= y; a comparison with NaN is false
Float64Lt(x, y) == ~x.nan /\ ~y.nan /\ x # y /\ Float64Sub(x, y).sign = -1
Float64Le(x, y) == ~x.nan /\ ~y.nan /\ (x = y \/ Float64Sub(x, y).sign = -1)

(***************************************************************************)
(* The metrics of one class in float64 (detection.py:202-211, 230-244 and  *)
(* 264-281), on the matches of the class in the order of descending score  *)
(* and its number of positives; up to MaxRanked predictions are ranked.    *)
(***************************************************************************)
MaxRanked == 4

\* true_positives / (false_positives + true_positives), elementwise
precision_float64(true_positives, false_positives) ==
    Eager([k \in 1..Len(true_positives) |->
        Float64Quotient(true_positives[k], false_positives[k] + true_positives[k])])

\* true_positives / num_positives[class_arg], elementwise
recall_float64(true_positives, class_num_positives) ==
    Eager([k \in 1..Len(true_positives) |->
        Float64Quotient(true_positives[k], class_num_positives)])

nan_to_num_float64(v) ==
    Eager([k \in 1..Len(v) |-> IF v[k].nan THEN Float64Zero ELSE v[k]])

\* entry i of np.arange(0., 1.1, 0.1): 0. + i * 0.1 in float64
arange_float64(i) == Float64Mul(Float64OfInt(i), Float64Quotient(1, 10))

\* np.max of the vector v at the positions `at`
max_float64(v, at) == v[CHOOSE k \in at : \A j \in at : Float64Le(v[j], v[k])]

\* a mutant of p_interpolation_float64: recall > t instead of recall >= t
p_interpolation_above(class_precision_values, class_recall_values, i) ==
    With(arange_float64(i), LAMBDA t :
        With({k \in 1..Len(class_recall_values) : Float64Lt(t, class_recall_values[k])},
             LAMBDA at :
                 IF at = {} THEN Float64Zero
                 ELSE max_float64(nan_to_num_float64(class_precision_values), at)))

\* the interpolated precision at t, entry i of the arange
p_interpolation_float64(class_precision_values, class_recall_values, i) ==
    With(arange_float64(i), LAMBDA t :
        With({k \in 1..Len(class_recall_values) : Float64Le(t, class_recall_values[k])},
             LAMBDA at :
                 IF at = {} THEN Float64Zero
                 ELSE max_float64(nan_to_num_float64(class_precision_values), at)))

\* the loop `for t in np.arange(0., 1.1, 0.1)` from entry i on, the average
\* precision of the class being average_precision_class
RECURSIVE eleven_point_from(_, _, _, _)
eleven_point_from(i, average_precision_class, class_precision_values, class_recall_values) ==
    IF i > 10
    THEN average_precision_class
    ELSE eleven_point_from(
             i + 1,
             Float64Add(average_precision_class,
                        Float64DivSmall(p_interpolation_float64(class_precision_values,
                                                                class_recall_values, i),
                                        11)),
             class_precision_values, class_recall_values)

eleven_point_float64(class_precision_values, class_recall_values) ==
    eleven_point_from(0, Float64Zero, class_precision_values, class_recall_values)

\* np.maximum.accumulate(v[::-1])[::-1]
envelope_float64(v) ==
    Eager([k \in 1..Len(v) |-> max_float64(v, k..Len(v))])

\* np.sum over the entries from k on, added from left to right to total (the
\* order in which numpy adds fewer than 8 numbers)
RECURSIVE sum_float64(_, _, _)
sum_float64(v, k, total) ==
    IF k > Len(v) THEN total ELSE sum_float64(v, k + 1, Float64Add(total, v[k]))

\* (\Delta recall) * precision at the points where recall changes
area_under_float64(average_precision, average_recall) ==
    sum_float64(
        Eager([k \in 1..Len(SelectSeq([i \in 1..(Len(average_recall) - 1) |-> i],
                                      LAMBDA i : average_recall[i + 1] # average_recall[i])) |->
            With(SelectSeq([i \in 1..(Len(average_recall) - 1) |-> i],
                           LAMBDA i : average_recall[i + 1] # average_recall[i])[k],
                 LAMBDA recall_change_arg :
                     Float64Mul(Float64Sub(average_recall[recall_change_arg + 1],
                                           average_recall[recall_change_arg]),
                                average_precision[recall_change_arg + 1]))]),
        1, Float64Zero)

every_point_float64(class_precision_values, class_recall_values) ==
    area_under_float64(
        envelope_float64(<<Float64Zero>> \o nan_to_num_float64(class_precision_values)
                             \o <<Float64Zero>>),
        <<Float64Zero>> \o class_recall_values \o <<Float64One>>)

\* the matches of a class in the order of descending score, together with a
\* number of positives that is not below the number of true positives
RankedClasses ==
    {ranked \in [class_positive_matches : SeqsOf({-1, 0, 1}, 0, MaxRanked),
                 class_num_positives : 1..MaxRanked] :
        cumsum_equal(ranked.class_positive_matches \o <<0>>, 1)[
            Len(ranked.class_positive_matches) + 1] <= ranked.class_num_positives}

InitAverage ==
    /\ pc = "relevance"
    /\ args \in RankedClasses
    /\ ret = None
    /\ NoEvaluation

\* precision and recall of the class
relevance_float64 ==
    /\ pc = "relevance"
    /\ ret' = [precision |->
                   precision_float64(cumsum_equal(args.class_positive_matches, 1),
                                     cumsum_equal(args.class_positive_matches, 0)),
               recall |->
                   recall_float64(cumsum_equal(args.class_positive_matches, 1),
                                  args.class_num_positives)]
    /\ pc' = "average"
    /\ UNCHANGED <<args, evaluation>>

\* the average precision of the class under either policy
average ==
    /\ pc = "average"
    /\ \E use_07_metric \in BOOLEAN :
          result' = [use_07_metric |-> use_07_metric,
                     average_precision |->
                         IF use_07_metric
                         THEN eleven_point_float64(ret.precision, ret.recall)
                         ELSE every_point_float64(ret.precision, ret.recall)]
    /\ pc' = "averaged"
    /\ UNCHANGED <<args, ret, num_positives, score, match, sample, scanned>>

NextAverage == relevance_float64 \/ average

SpecAverage == InitAverage /\ [][NextAverage]_vars

\* what the claims about the average precision speak of
Averaged == pc = "averaged"
PerfectPrecision ==
    /\ Len(ret.precision) > 0
    /\ \A k \in 1..Len(ret.precision) : ret.precision[k] = Float64One
RecallReachesOne == \E k \in 1..Len(ret.recall) : ret.recall[k] = Float64One
\* 1 + 2^-52, the float64 next above 1: 1.0000000000000002
Float64AboveOne == Float64Add(Float64One, Float64Of(1, <<1>>, -52))

(***************************************************************************)
(* to_center_form and to_point_form in float64, applied one after the      *)
(* other to an array of one row.  The coordinates are 0, 0.1, 0.3, 0.5 and *)
(* 1 in any order, so that widths and heights of zero and below zero occur.*)
(***************************************************************************)
\* a mutant of to_center_form_row_float64: the width is not halved back
to_center_form_row_sum(b) ==
    <<Float64DivSmall(Float64Add(b[3], b[1]), 2),
      Float64DivSmall(Float64Add(b[4], b[2]), 2),
      Float64Add(b[3], b[1]), Float64Sub(b[4], b[2])>>

\* to_center_form: (x_min, y_min, x_max, y_max) -> center, width, height
to_center_form_row_float64(b) ==
    <<Float64DivSmall(Float64Add(b[3], b[1]), 2),
      Float64DivSmall(Float64Add(b[4], b[2]), 2),
      Float64Sub(b[3], b[1]), Float64Sub(b[4], b[2])>>

to_center_form_float64(boxes) ==
    Eager([i \in 1..Len(boxes) |-> to_center_form_row_float64(boxes[i])])

\* to_point_form: (center_x, center_y, width, height) -> corners
to_point_form_row_float64(b) ==
    <<Float64Sub(b[1], Float64DivSmall(b[3], 2)),
      Float64Sub(b[2], Float64DivSmall(b[4], 2)),
      Float64Add(b[1], Float64DivSmall(b[3], 2)),
      Float64Add(b[2], Float64DivSmall(b[4], 2))>>

to_point_form_float64(boxes) ==
    Eager([i \in 1..Len(boxes) |-> to_point_form_row_float64(boxes[i])])

FormCoordinates ==
    {Float64Zero, Float64One, Float64Quotient(1, 10), Float64Quotient(3, 10),
     Float64Quotient(1, 2)}

InitForm ==
    /\ pc = "call"
    /\ args \in [boxes : [1..1 -> [1..4 -> FormCoordinates]]]
    /\ ret = None
    /\ NoEvaluation

\* the boxes read as point form: to center form and back
point_center_point ==
    /\ pc = "call"
    /\ ret' = to_point_form_float64(to_center_form_float64(args.boxes))
    /\ pc' = "point"
    /\ UNCHANGED <<args, evaluation>>

\* the boxes read as center form: to point form and back
center_point_center ==
    /\ pc = "call"
    /\ ret' = to_center_form_float64(to_point_form_float64(args.boxes))
    /\ pc' = "center"
    /\ UNCHANGED <<args, evaluation>>

NextForm == point_center_point \/ center_point_center

SpecForm == InitForm /\ [][NextForm]_vars

\* what the claims about the two forms speak of
Transformed == pc \in {"point", "center"}
Float64Abs(x) == IF x.nan THEN x ELSE [x EXCEPT !.sign = 1]
\* |x - y| <= 2^-50
Float64Close(x, y) ==
    Float64Le(Float64Abs(Float64Sub(x, y)), Float64Of(1, <<1>>, -50))
Float64Integer(x) == ~x.nan /\ x.exp >= 0

(***************************************************************************)
(* Box Codec (boxes.py, encode and decode), on numbers in exact            *)
(* arithmetic: the claims about the codec allow a tolerance far above the  *)
(* rounding of the floats.  pz.log(a) / v is kept as the pair of a and v,  *)
(* and pz.exp of it times v is a again when v is not zero.  A division by  *)
(* zero gives what it gives on float arrays: Inf, -Inf or NaN.             *)
(***************************************************************************)
\* x * y, x + y, x - y and x / y with the infinities and NaN
times(x, y) ==
    IF IsNaN(x) \/ IsNaN(y) THEN NaN
    ELSE IF IsFinite(x) /\ IsFinite(y) THEN FMul(x, y)
    ELSE IF x = Zero \/ y = Zero THEN NaN
    ELSE IF (x[1] > 0) = (y[1] > 0) THEN Inf ELSE NegInf

plus(x, y) ==
    IF IsNaN(x) \/ IsNaN(y) THEN NaN
    ELSE IF IsFinite(x) /\ IsFinite(y) THEN FAdd(x, y)
    ELSE IF IsFinite(x) THEN y
    ELSE IF IsFinite(y) \/ x = y THEN x
    ELSE NaN

negative(x) == <<-x[1], x[2]>>

minus(x, y) == plus(x, negative(y))

over(x, y) ==
    IF IsNaN(x) \/ IsNaN(y) THEN NaN
    ELSE IF IsFinite(x) /\ IsFinite(y) THEN FDiv(x, y)
    ELSE IF IsFinite(x) THEN Zero
    ELSE IF ~IsFinite(y) THEN NaN
    ELSE IF (x[1] > 0) = (y[1] >= 0) THEN Inf ELSE NegInf

absolute(x) == <<Abs(x[1]), x[2]>>

\* the 1e-4 of encode
Epsilon == Q(1, 10000)

\* pz.log(a) / v for a > 0
log_over(a, v) == [log_of |-> a, over |-> v]

\* pz.exp(g * v) for g = pz.log(a) / w: with w = 0 g is Inf, -Inf or NaN (for
\* a above, below or equal to 1); with v = w # 0 it is a; the power
\* a^(v / w) of other pairs stays a formula
exp_times(g, v) ==
    IF g.over = Zero
    THEN IF v = Zero \/ g.log_of = One THEN NaN
         ELSE IF FLt(One, g.log_of) = FLt(Zero, v) THEN Inf ELSE Zero
    ELSE IF v = g.over THEN g.log_of
    ELSE IF v = Zero THEN One
    ELSE [exp_of |-> g, times |-> v]

\* one row of encode(matched, priors, variances)
encode_row(matched, prior, variances) ==
    <<over(minus(over(plus(matched[1], matched[3]), Two), prior[1]),
           times(variances[1], prior[3])),
      over(minus(over(plus(matched[2], matched[4]), Two), prior[2]),
           times(variances[1], prior[4])),
      log_over(plus(absolute(over(minus(matched[3], matched[1]), prior[3])), Epsilon),
               variances[2]),
      log_over(plus(absolute(over(minus(matched[4], matched[2]), prior[4])), Epsilon),
               variances[2]),
      matched[5]>>

encode(matched, priors, variances) ==
    Eager([i \in 1..Len(matched) |-> encode_row(matched[i], priors[i], variances)])

\* decode, the concatenation: center and size of the decoded box
decode_center_form(prediction, prior, variances) ==
    <<plus(prior[1], times(times(prediction[1], variances[1]), prior[3])),
      plus(prior[2], times(times(prediction[2], variances[1]), prior[4])),
      times(prior[3], exp_times(prediction[3], variances[2])),
      times(prior[4], exp_times(prediction[4], variances[2]))>>

\* a mutant of decode_corners: the last two columns stay width and height
decode_corners_without_maxima(box) ==
    <<minus(box[1], over(box[3], Two)), minus(box[2], over(box[4], Two)),
      box[3], box[4]>>

\* decode, the two assignments: boxes[:, :2] -= boxes[:, 2:4] / 2, then
\* boxes[:, 2:4] += boxes[:, :2]
decode_corners(box) ==
    <<minus(box[1], over(box[3], Two)),
      minus(box[2], over(box[4], Two)),
      plus(box[3], minus(box[1], over(box[3], Two))),
      plus(box[4], minus(box[2], over(box[4], Two)))>>

\* one row of decode(predictions, priors, variances)
decode_row(prediction, prior, variances) ==
    decode_corners(decode_center_form(prediction, prior, variances))
        \o <<prediction[5]>>

decode(predictions, priors, variances) ==
    Eager([i \in 1..Len(predictions) |-> decode_row(predictions[i], priors[i], variances)])

\* matched boxes and anchors of positive width and height, one row each
MatchedBoxes ==
    {<<F(x[1]), F(y[1]), F(x[2]), F(y[2]), F(c)>> :
        x \in {<<0, 1>>, <<0, 2>>, <<1, 2>>}, y \in {<<0, 1>>, <<0, 2>>, <<1, 2>>},
        c \in Classes}

CodecPriors ==
    {<<cx, Half, w, h>> : cx \in {Half, One}, w \in {Half, F(10), F(30)},
                          h \in {One, F(30)}}

Variances == {<<v0, v1>> : v0 \in {Zero, Q(1, 10), One}, v1 \in {Zero, Q(1, 5), One}}

InitCodec ==
    /\ pc = "call"
    /\ args \in [matched : [1..1 -> MatchedBoxes], priors : [1..1 -> CodecPriors],
                  variances : Variances]
    /\ ret = None
    /\ NoEvaluation

call_encode ==
    /\ pc = "call"
    /\ ret' = encode(args.matched, args.priors, args.variances)
    /\ pc' = "encoded"
    /\ UNCHANGED <<args, evaluation>>

\* decode of what encode returned, with the same anchors and variances
call_decode ==
    /\ pc = "encoded"
    /\ result' = decode(ret, args.priors, args.variances)
    /\ pc' = "decoded"
    /\ UNCHANGED <<args, ret, num_positives, score, match, sample, scanned>>

NextCodec == call_encode \/ call_decode

SpecCodec == InitCodec /\ [][NextCodec]_vars

\* what the claims about the codec speak of
Decoded == pc = "decoded"
\* |x - y| <= 1e-3
WithinTolerance(x, y) == FLe(absolute(minus(x, y)), Q(1, 1000))
Reproduced ==
    \A i \in 1..Len(args.matched) :
        /\ \A k \in 1..4 : WithinTolerance(result[i][k], args.matched[i][k])
        /\ result[i][5] = args.matched[i][5]

(***************************************************************************)
(* predictions_mask_by_class on what get_predictions returns for up to     *)
(* MaxPredictions detections, called with the class of every prediction,   *)
(* as its parameters are named.  Scores repeat, boxes tell the predictions *)
(* of equal score apart.                                                   *)
(***************************************************************************)
MaskDetections ==
    [box : PredictedBoxes, class_arg : Classes, score : {Q(9, 10), Half}]

InitMask ==
    /\ pc = "call"
    /\ \E results \in SeqsOf(MaskDetections, 0, MaxPredictions) :
          args \in [class_arg : Classes, predictions : {get_predictions(results)}]
    /\ ret = None
    /\ NoEvaluation

call_predictions_mask_by_class ==
    /\ pc = "call"
    /\ ret' = predictions_mask_by_class(args.class_arg, args.predictions.class_args,
                                        args.predictions.boxes, args.predictions.scores)
    /\ pc' = "return"
    /\ UNCHANGED <<args, evaluation>>

NextMask == call_predictions_mask_by_class

SpecMask == InitMask /\ [][NextMask]_vars

\* what the claims about the ordering speak of
\* the predictions of the class, by their position in the detector's output
OfTheClass ==
    {i \in 1..Len(args.predictions.class_args) :
        args.predictions.class_args[i] = args.class_arg}
\* the place of prediction i in the stable descending order of the class
StablePlace(i) ==
    1 + Cardinality({j \in OfTheClass :
            \/ FLt(args.predictions.scores[i], args.predictions.scores[j])
            \/ (args.predictions.scores[j] = args.predictions.scores[i] /\ j < i)})

(***************************************************************************)
(* Claims                                                                  *)
(***************************************************************************)
\* C4 (as claimed): compute_iou returns 0, never NaN or Inf, for every pair
\* of boxes whose union area is 0.
C4_ZeroUnionGivesZero ==
    pc = "return" =>
        \A i \in 1..Len(args.boxes) :
            union_area(args.box, args.boxes[i]) = Zero => ret[i] = Zero

\* C8: along the axis, reversed_argmax returns an index of the maximum, the
\* highest one when several positions tie (n-1 when all n are equal), and the
\* index numpy's argmax returns when the maximum is unique.
C8_ReversedArgmaxLast ==
    pc = "return" =>
        /\ Len(ret) = shape(args.array)[2 - args.axis]
        /\ \A k \in 1..Len(ret) :
              LET v == lane(args.array, args.axis, k)
                  n == Len(v)
                  r == ret[k] + 1
                  IsTop(i) == \A j \in 1..n : FLe(v[j], v[i])
              IN  (\A j \in 1..n : ~IsNaN(v[j])) =>
                      /\ r \in 1..n
                      /\ IsTop(r)
                      /\ \A j \in 1..n : IsTop(j) => j <= r
                      /\ Cardinality({j \in 1..n : IsTop(j)}) = 1
                            => ret[k] = argmax(v)
                      /\ (\A j \in 1..n : v[j] = v[1]) => ret[k] = n - 1

\* C8 witness: a lane with tied maxima, answered with the last of them
C8_Witness ==
    /\ pc = "return"
    /\ \E k \in 1..Len(ret) :
          LET v == lane(args.array, args.axis, k)
          IN  /\ Len(v) = 2
              /\ v[1] = One /\ v[2] = One
              /\ ret[k] = 1
              /\ argmax(v) = 0

\* C2 (as claimed): every ground-truth box g appears in the output of match:
\* g's best anchor carries g's coordinates and g's non-zero class, also when
\* several ground-truth boxes have the same best anchor.
C2_AtBestAnchor(best) ==
    \A g \in GroundTruths : ret.value[best[g] + 1] = args.boxes[g]

C2_EveryGroundTruthAtItsBestAnchor ==
    MatchReturned => \A best \in {match_best} : C2_AtBestAnchor(best)

\* C2 (amended): every ground-truth box g whose best anchor is not also the
\* best anchor of a later ground-truth box appears in the output: that anchor
\* carries g's coordinates and g's non-zero class, whatever the threshold.
C2_AtUnsharedBestAnchor(best) ==
    \A g \in GroundTruths :
        (\A h \in GroundTruths : h > g => best[h] # best[g])
            => /\ ret.value[best[g] + 1] = args.boxes[g]
               /\ ret.value[best[g] + 1][5] # Zero

C2_GroundTruthAtUnsharedBestAnchor ==
    MatchReturned => \A best \in {match_best} : C2_AtUnsharedBestAnchor(best)

\* C2 witness: a ground-truth box kept at its best anchor although its IoU
\* there is below the threshold
C2_Kept(ious, best) ==
    \E g \in GroundTruths :
        /\ \A h \in GroundTruths : h # g => best[h] # best[g]
        /\ FLt(ious[g][best[g] + 1], args.iou_threshold)
        /\ ret.value[best[g] + 1] = args.boxes[g]

C2_Witness ==
    MatchReturned /\ \E ious \in {match_ious} : C2_Kept(ious, reversed_argmax(ious, 1))

\* C5 (as claimed): match with no ground-truth box raises nothing and returns
\* one background record (class 0) per prior box.
C5_EmptyGroundTruthAllBackground ==
    (pc = "return" /\ Len(args.boxes) = 0) =>
        /\ ret.exception = ""
        /\ Len(ret.value) = Len(args.prior_boxes)
        /\ \A a \in Anchors : ret.value[a][5] = Zero

\* C6: when two or more ground-truth boxes have the same best anchor a, the
\* record of a is the one of them with the highest index, its class kept
\* non-background whatever the threshold.
C6_LastOfSharing(best) ==
    \A a \in Anchors :
        LET sharing == {g \in GroundTruths : best[g] + 1 = a}
        IN  Cardinality(sharing) >= 2 =>
                \E g \in sharing :
                    /\ \A h \in sharing : h <= g
                    /\ ret.value[a] = args.boxes[g]
                    /\ ret.value[a][5] \in {F(c) : c \in Classes}

C6_LastGroundTruthWinsSharedAnchor ==
    MatchReturned => \A best \in {match_best} : C6_LastOfSharing(best)

\* C6 witness: two different ground-truth boxes share their best anchor, the
\* first has the larger IoU there, the second is below the threshold and wins
C6_SecondWins(ious, best) ==
    /\ Len(args.boxes) = 2
    /\ args.boxes[1] # args.boxes[2]
    /\ best[1] = best[2]
    /\ FLt(ious[2][best[2] + 1], ious[1][best[1] + 1])
    /\ FLt(ious[2][best[2] + 1], args.iou_threshold)
    /\ ret.value[best[1] + 1] = args.boxes[2]

C6_Witness ==
    MatchReturned /\ \E ious \in {match_ious} : C6_SecondWins(ious, reversed_argmax(ious, 1))

\* C7: anchor a is background (class 0) exactly when it is no ground truth's
\* best anchor and the maximum IoU of its column is below the threshold; a
\* best anchor keeps a non-zero class; any other anchor whose best IoU reaches
\* the threshold carries the class of its best ground truth, the last on ties.
C7_Gated(ious, best) ==
    \A a \in Anchors :
        LET forced == \E g \in GroundTruths : best[g] + 1 = a
            numbers == \A g \in GroundTruths : ~IsNaN(ious[g][a])
            below == \A g \in GroundTruths : FLt(ious[g][a], args.iou_threshold)
            IsTop(g) == \A h \in GroundTruths : FLe(ious[h][a], ious[g][a])
        IN  /\ ret.value[a][5] = Zero <=> (~forced /\ below)
            /\ forced => ret.value[a][5] # Zero
            /\ (~forced /\ numbers /\ ~below) =>
                   \E g \in GroundTruths :
                       /\ IsTop(g)
                       /\ \A h \in GroundTruths : IsTop(h) => h <= g
                       /\ ret.value[a] = args.boxes[g]

C7_BackgroundExactlyBelowThreshold ==
    MatchReturned =>
        \A ious \in {match_ious} : \A best \in {reversed_argmax(ious, 1)} :
            C7_Gated(ious, best)

\* C7 witness: one anchor is background, one is kept by the sentinel alone
C7_BothKinds(ious, best) ==
    /\ \E a \in Anchors : ret.value[a][5] = Zero
    /\ \E a \in Anchors :
          /\ \E g \in GroundTruths : best[g] + 1 = a
          /\ \A g \in GroundTruths : FLt(ious[g][a], args.iou_threshold)
          /\ ret.value[a][5] # Zero

C7_Witness ==
    MatchReturned /\ \E ious \in {match_ious} : C7_BothKinds(ious, reversed_argmax(ious, 1))

C3_Appended(c) ==
    \E appended \in {SubSeq(score'[c], Len(score[c]) + 1, Len(score'[c]))} :
        /\ Len(score'[c]) >= Len(score[c])
        /\ SubSeq(score'[c], 1, Len(score[c])) = score[c]
        /\ Len(appended) = Len(SampleScores(c))
        /\ \A i \in 1..Len(appended) :
               Occurrences(appended, appended[i]) =
                   Occurrences(SampleScores(c), appended[i])
        /\ \A i \in 1..(Len(appended) - 1) : FLe(appended[i + 1], appended[i])

C3_ScoresOfTheClass ==
    [][pc = "loaded" =>
          /\ pc' = "scan"
          /\ \A c \in SampleClasses : C3_Appended(c)]_vars

\* C10: the average precision of a class is NaN exactly when its
\* num_positives is 0 (index 0 is always NaN), so it is never 0 for such a
\* class, and 'map' is the mean of the average precisions of the classes with
\* positives (NaN when there is none), under the 11-point and the every-point
\* policy alike.
C10_NaNExactlyWithoutPositives ==
    Evaluated =>
        /\ Len(average_precisions) = num_classes + 1
        /\ IsNaN(average_precisions[1])
        /\ \A c \in Classes :
               /\ IsNaN(average_precisions[c + 1]) <=> num_positives[c] = 0
               /\ num_positives[c] = 0 => average_precisions[c + 1] # Zero
        /\ \A with_positives \in {{c \in Classes : num_positives[c] > 0}} :
               IF with_positives = {}
               THEN IsNaN(result.returned.map)
               ELSE FMul(result.returned.map, F(Cardinality(with_positives))) =
                        FSum([c \in 1..num_classes |->
                                 IF c \in with_positives
                                 THEN average_precisions[c + 1] ELSE Zero])

\* a class with predictions and no positives next to a class with a true
\* positive: the mean is the average precision of the second one
C10_Witness ==
    /\ Evaluated
    /\ \E c, d \in Classes :
          /\ num_positives[c] = 0
          /\ Len(score[c]) > 0
          /\ IsNaN(average_precisions[c + 1])
          /\ num_positives[d] > 0
          /\ 1 \in {match[d][i] : i \in 1..Len(match[d])}
          /\ IsFinite(average_precisions[d + 1])
          /\ average_precisions[d + 1] # Zero
          /\ result.returned.map = average_precisions[d + 1]

\* C11 (as claimed): precision and recall do not depend on the order in which
\* the samples were collected, also when predictions of a class have equal
\* scores and different match values.
C11_OrderOfCollectionIrrelevant ==
    Measured => ret = sequential_metrics

\* C11 (amended): precision and recall do not depend on the order in which
\* the samples were collected when the predictions of a class that have
\* equal scores have equal match values.
C11_OrderIrrelevantUnlessTiesDiffer ==
    Measured /\ TiesAgree => ret = sequential_metrics

\* a dataset collected in another order, no two equal scores with different
\* match values, a true and a false positive in one class
C11_Witness ==
    /\ Measured
    /\ TiesAgree
    /\ score # sequential.score
    /\ ret = sequential_metrics
    /\ \E c \in Classes : {0, 1} \subseteq {match[c][i] : i \in 1..Len(match[c])}

C13_IouInUnitInterval ==
    pc = "return" =>
        \A i \in 1..Len(ret) : FLe(Zero, ret[i]) /\ FLe(ret[i], One)

\* C14 (as claimed): to_point_form(to_center_form(b)) equals b and
\* to_center_form(to_point_form(c)) equals c, row by row, for boxes of zero
\* or negative width or height too.
C14_FormsAreInverse ==
    Transformed => ret = args.boxes

\* C14 (amended): the two round trips give the box back within floating
\* tolerance (here 2^-50 on coordinates between 0 and 1), whatever the sign
\* of width and height, and exactly when the coordinates are integers.
C14_FormsAreInverseRounded ==
    Transformed =>
        \A i \in 1..Len(args.boxes) :
            /\ \A k \in 1..4 : Float64Close(ret[i][k], args.boxes[i][k])
            /\ (\A k \in 1..4 : Float64Integer(args.boxes[i][k]))
                   => ret[i] = args.boxes[i]

\* a point-form box of negative width that comes back with a rounded corner
C14_Witness ==
    /\ pc = "point"
    /\ Float64Lt(args.boxes[1][3], args.boxes[1][1])
    /\ ret[1] # args.boxes[1]
    /\ \A k \in 1..4 : Float64Close(ret[1][k], args.boxes[1][k])

\* C15 (as claimed): for matched boxes and anchors of positive width and
\* height and any variances, decode(encode(matched, anchors, v), anchors, v)
\* gives the four coordinates of matched within 1e-3 and its class label
\* exactly.
C15_CodecRoundTrip ==
    Decoded => Reproduced

\* C15 (amended): the same for variances that are not zero and anchors of a
\* width and height of at most 10: encode adds 1e-4 to the size ratio, which
\* moves every decoded corner by 5e-5 times the size of the anchor.
C15_CodecRoundTripSmallAnchors ==
    (/\ Decoded
     /\ args.variances[1] # Zero
     /\ args.variances[2] # Zero
     /\ \A i \in 1..Len(args.priors) :
            FLe(args.priors[i][3], F(10)) /\ FLe(args.priors[i][4], F(10)))
        => /\ Reproduced
           /\ \A i \in 1..Len(args.matched) :
                  /\ result[i][1] = minus(args.matched[i][1],
                                          times(Q(1, 20000), args.priors[i][3]))
                  /\ result[i][3] = plus(args.matched[i][3],
                                         times(Q(1, 20000), args.priors[i][3]))

\* the usual variances and an anchor of width 10: the corners come back
\* moved by 5e-4
C15_Witness ==
    /\ Decoded
    /\ args.variances = <<Q(1, 10), Q(1, 5)>>
    /\ args.priors[1][3] = F(10)
    /\ args.priors[1][4] = One
    /\ Reproduced
    /\ result[1][1] = minus(args.matched[1][1], Q(1, 2000))

\* C16 (as claimed): the predictions of a class are ordered by a stable
\* descending sort by score: predictions of equal score keep the order in
\* which the detector returned them.
C16_StableDescendingSort ==
    pc = "return" =>
        /\ ret.exception = ""
        /\ Len(ret.value[1]) = Cardinality(OfTheClass)
        /\ Len(ret.value[2]) = Cardinality(OfTheClass)
        /\ \A i \in OfTheClass :
               /\ ret.value[1][StablePlace(i)] = args.predictions.boxes[i]
               /\ ret.value[2][StablePlace(i)] = args.predictions.scores[i]

\* C17 (as claimed): whenever a sample has been processed, scores[c] and
\* match[c] have the same length and every entry of match[c] is -1, 0 or 1;
\* a sample with predictions of class c and no ground truth of class c
\* appends exactly one 0 per such prediction, and a sample with ground truth
\* and no predictions of class c appends nothing to either list.
C17_Parallel(c) ==
    /\ Len(score'[c]) = Len(match'[c])
    /\ \A i \in 1..Len(match'[c]) : match'[c][i] \in {-1, 0, 1}

C17_TruthOfClass(c) == \E i \in 1..Len(sample.boxes) : sample.boxes[i][5][1] = c

C17_Appended(c) ==
    /\ (Len(SampleScores(c)) > 0 /\ ~C17_TruthOfClass(c)) =>
           /\ Len(score'[c]) = Len(score[c]) + Len(SampleScores(c))
           /\ match'[c] = match[c] \o [i \in 1..Len(SampleScores(c)) |-> 0]
    /\ (Len(SampleScores(c)) = 0 /\ C17_TruthOfClass(c)) =>
           /\ score'[c] = score[c]
           /\ match'[c] = match[c]

C17_ParallelLists ==
    [][(pc = "loaded" /\ pc' = "scan") =>
          \A c \in Classes : C17_Parallel(c) /\ C17_Appended(c)]_vars

\* C18 (as claimed): once the predictions of a class have been matched, the
\* number of entries 1 in match[c] is at most num_positives[c], so every
\* recall value that calculate_relevance_metrics computes lies in [0, 1].
C18_RecallValues(recall) ==
    \A c \in Classes :
        \A k \in 1..Len(recall[c + 1].array) :
            FLe(Zero, recall[c + 1].array[k]) /\ FLe(recall[c + 1].array[k], One)

C18_TruePositivesBounded ==
    \A c \in Classes : Occurrences(match[c], 1) <= num_positives[c]

=============================================================================
